---------------------------- MODULE Spec2Model ----------------------------
(***************************************************************************)
(* MasterBlog API (src/backend/backend_app.py): the JSON post store and    *)
(* the request handlers built on it.                                       *)
(*                                                                         *)
(* Text is modelled as a sequence of one-character strings, so that        *)
(* trimming and date parsing are computed and not assumed.  The store file *)
(* is modelled by its existence and its JSON content.                      *)
(***************************************************************************)
EXTENDS Integers, Sequences, FiniteSets, TLC

(***************************************************************************)
(* Bounds of the model.                                                    *)
(***************************************************************************)
\* successful mutating requests (saves by handlers) in one behaviour
MaxOps == 3
\* largest post id that a request names
MaxId == 4
\* request threads of the interleaved specification
NumThreads == 2
\* requests begun in one behaviour of the interleaved specification
MaxRequests == 2

(***************************************************************************)
(* Text.                                                                   *)
(***************************************************************************)
Whitespace == {" ", "\t", "\n"}

Digits == <<"0", "1", "2", "3", "4", "5", "6", "7", "8", "9">>

IsDigit(c) == \E i \in 1..Len(Digits) : Digits[i] = c

DigitVal(c) == (CHOOSE i \in 1..Len(Digits) : Digits[i] = c) - 1

\* str.strip(): drop leading, then trailing, whitespace
RECURSIVE lstrip(_)
lstrip(s) ==
    IF s # <<>> /\ Head(s) \in Whitespace THEN lstrip(Tail(s)) ELSE s

RECURSIVE rstrip(_)
rstrip(s) ==
    IF s # <<>> /\ s[Len(s)] \in Whitespace
    THEN rstrip(SubSeq(s, 1, Len(s) - 1))
    ELSE s

strip(s) == rstrip(lstrip(s))

\* str.lower()
Upper ==
    <<"A", "B", "C", "D", "E", "F", "G", "H", "I", "J", "K", "L", "M",
      "N", "O", "P", "Q", "R", "S", "T", "U", "V", "W", "X", "Y", "Z">>

Lower ==
    <<"a", "b", "c", "d", "e", "f", "g", "h", "i", "j", "k", "l", "m",
      "n", "o", "p", "q", "r", "s", "t", "u", "v", "w", "x", "y", "z">>

lower_char(c) ==
    IF \E i \in 1..Len(Upper) : Upper[i] = c
    THEN Lower[CHOOSE i \in 1..Len(Upper) : Upper[i] = c]
    ELSE c

lower(s) == [i \in 1..Len(s) |-> lower_char(s[i])]

\* the characters of the model in the order of their code points
CodePoints == <<"\t", "\n", " ", "-", ".">> \o Digits \o Upper \o Lower

\* the rank of a character in that order
ord(c) == CHOOSE i \in 1..Len(CodePoints) : CodePoints[i] = c

\* a < b for str: by the first position that differs, a prefix first
RECURSIVE StrLess(_, _)
StrLess(a, b) ==
    IF b = <<>> THEN FALSE
    ELSE IF a = <<>> THEN TRUE
    ELSE IF Head(a) = Head(b) THEN StrLess(Tail(a), Tail(b))
    ELSE ord(Head(a)) < ord(Head(b))

\* sub in s
Contains(sub, s) ==
    \E i \in 0..(Len(s) - Len(sub)) : SubSeq(s, i + 1, i + Len(sub)) = sub

(***************************************************************************)
(* JSON values of a request body's fields: a key can be absent, null or a  *)
(* string.                                                                 *)
(***************************************************************************)
Absent == [k |-> "absent", s |-> <<>>]
JNull == [k |-> "null", s |-> <<>>]
JStr(s) == [k |-> "str", s |-> s]

\* "f" in data
HasKey(data, f) == data[f].k # "absent"

\* data.get(f): None for an absent key
DictGet(data, f) == IF HasKey(data, f) THEN data[f] ELSE JNull

_as_str(value) == IF value.k = "null" THEN <<>> ELSE strip(value.s)

(***************************************************************************)
(* Dates: datetime.strptime(date_str, "%Y-%m-%d") and the range check.     *)
(* strptime matches the regular expression                                 *)
(*   (\d\d\d\d)-(1[0-2]|0[1-9]|[1-9])-(3[0-1]|[1-2]\d|0[1-9]|[1-9]| [1-9]) *)
(* at the start of the text, rejects text that remains after the match,    *)
(* and then builds the date, which rejects a day the month does not have.  *)
(***************************************************************************)
DATE_MIN == <<1900, 1, 1>>
DATE_MAX == <<2100, 12, 31>>

At(s, i) == IF i >= 1 /\ i <= Len(s) THEN s[i] ELSE ""

NonZeroDigit(c) == IsDigit(c) /\ c # "0"

\* length of the month group at position i (0: no match); "-" must follow
MonthLen(s, i) ==
    IF /\ \/ At(s, i) = "1" /\ At(s, i + 1) \in {"0", "1", "2"}
          \/ At(s, i) = "0" /\ NonZeroDigit(At(s, i + 1))
       /\ At(s, i + 2) = "-"
    THEN 2
    ELSE IF NonZeroDigit(At(s, i)) /\ At(s, i + 1) = "-" THEN 1 ELSE 0

\* length of the day group at position i (0: no match): the first
\* alternative that matches
DayLen(s, i) ==
    IF \/ At(s, i) = "3" /\ At(s, i + 1) \in {"0", "1"}
       \/ At(s, i) \in {"1", "2"} /\ IsDigit(At(s, i + 1))
       \/ At(s, i) = "0" /\ NonZeroDigit(At(s, i + 1))
    THEN 2
    ELSE IF NonZeroDigit(At(s, i)) THEN 1
    ELSE IF At(s, i) = " " /\ NonZeroDigit(At(s, i + 1)) THEN 2
    ELSE 0

RECURSIVE ToInt(_)
ToInt(s) ==
    IF s = <<>> THEN 0
    ELSE IF Head(s) = " " THEN ToInt(Tail(s))
    ELSE 10 * ToInt(SubSeq(s, 1, Len(s) - 1)) + DigitVal(s[Len(s)])

IsLeap(y) == y % 4 = 0 /\ (y % 100 # 0 \/ y % 400 = 0)

DaysInMonth(y, m) ==
    IF m = 2 THEN (IF IsLeap(y) THEN 29 ELSE 28)
    ELSE IF m \in {4, 6, 9, 11} THEN 30 ELSE 31

NoDate == [ok |-> FALSE, ymd |-> <<0, 0, 0>>]

strptime(s) ==
    IF ~ (/\ \A i \in 1..4 : IsDigit(At(s, i))
          /\ At(s, 5) = "-"
          /\ MonthLen(s, 6) > 0)
    THEN NoDate
    ELSE LET ml == MonthLen(s, 6)
             dl == DayLen(s, 7 + ml)
         IN  IF dl = 0 \/ 6 + ml + dl # Len(s)
             THEN NoDate
             ELSE LET y == ToInt(SubSeq(s, 1, 4))
                      m == ToInt(SubSeq(s, 6, 5 + ml))
                      d == ToInt(SubSeq(s, 7 + ml, 6 + ml + dl))
                  IN  IF y >= 1 /\ d <= DaysInMonth(y, m)
                      THEN [ok |-> TRUE, ymd |-> <<y, m, d>>]
                      ELSE NoDate

\* a <= b on <<year, month, day>>
DateLeq(a, b) ==
    \/ a[1] < b[1]
    \/ a[1] = b[1] /\ a[2] < b[2]
    \/ a[1] = b[1] /\ a[2] = b[2] /\ a[3] <= b[3]

\* the parsed date, or NoDate where the code returns None
_parse_date(date_str) ==
    IF date_str = <<>> THEN NoDate
    ELSE LET value == strptime(date_str)
         IN  IF ~ value.ok THEN NoDate
             ELSE IF ~ (DateLeq(DATE_MIN, value.ymd) /\ DateLeq(value.ymd, DATE_MAX))
             THEN NoDate
             ELSE value


(***************************************************************************)
(* The store file and the storage helpers, when one request runs at a      *)
(* time and the disk does not fail.                                        *)
(***************************************************************************)
\* json.dumps(posts): the text of a JSON array
json_dumps(posts) == [shape |-> "array", text |-> posts]

\* content of a store file that the program did not write
ScalarJson == [shape |-> "scalar", text |-> <<>>]
MalformedJson == [shape |-> "malformed", text |-> <<>>]

\* bytes that are not UTF-8: reading the file raises UnicodeDecodeError, which
\* is neither a JSONDecodeError nor an OSError
UndecodableJson == [shape |-> "undecodable", text |-> <<>>]

MissingFile == [exists |-> FALSE, data |-> MalformedJson]
FileWith(data) == [exists |-> TRUE, data |-> data]

\* os.replace(tmp_path, path) of a temporary file holding data
_atomic_write(f, data) == FileWith(data)

_save_posts(f, posts) == _atomic_write(f, json_dumps(posts))

Str_First_post == <<"F", "i", "r", "s", "t", " ", "p", "o", "s", "t">>
Str_Second_post == <<"S", "e", "c", "o", "n", "d", " ", "p", "o", "s", "t">>
Str_This_is_the_first_post ==
    <<"T", "h", "i", "s", " ", "i", "s", " ", "t", "h", "e", " ",
      "f", "i", "r", "s", "t", " ", "p", "o", "s", "t", ".">>
Str_This_is_the_second_post ==
    <<"T", "h", "i", "s", " ", "i", "s", " ", "t", "h", "e", " ",
      "s", "e", "c", "o", "n", "d", " ", "p", "o", "s", "t", ".">>
Str_System == <<"S", "y", "s", "t", "e", "m">>
Str_2023_01_01 == <<"2", "0", "2", "3", "-", "0", "1", "-", "0", "1">>
Str_2023_01_02 == <<"2", "0", "2", "3", "-", "0", "1", "-", "0", "2">>

seed ==
    << [id |-> 1, title |-> Str_First_post,
        content |-> Str_This_is_the_first_post, author |-> Str_System,
        date |-> Str_2023_01_01, likes |-> 0, comments |-> <<>>],
       [id |-> 2, title |-> Str_Second_post,
        content |-> Str_This_is_the_second_post, author |-> Str_System,
        date |-> Str_2023_01_02, likes |-> 0, comments |-> <<>>] >>

\* what json.load and the isinstance test give for an existing file
ReadPosts(f) == IF f.data.shape = "array" THEN f.data.text ELSE <<>>

\* json.load raises an exception that _load_posts does not catch
ReadRaises(f) == f.data.shape = "undecodable"

\* the seed is returned, the file is not written
_load_posts_without_save(f) ==
    IF ~ f.exists
    THEN [ret |-> seed, file |-> f, raised |-> FALSE]
    ELSE [ret |-> ReadPosts(f), file |-> f, raised |-> ReadRaises(f)]

\* ret: the list returned; file: the store file afterwards; raised: an
\* exception leaves _load_posts instead
_load_posts(f) ==
    IF ~ f.exists
    THEN [ret |-> seed, file |-> _save_posts(f, seed), raised |-> FALSE]
    ELSE [ret |-> ReadPosts(f), file |-> f, raised |-> ReadRaises(f)]

SetMax(S) == CHOOSE x \in S : \A y \in S : y <= x

PostIds(posts) == {posts[i].id : i \in 1..Len(posts)}

\* len(posts) + 1
_next_id_count(posts) == Len(posts) + 1

\* max(id + 1 for the posts, default=0): 0 for an empty list
_next_id_default_inside(posts) ==
    IF posts = <<>> THEN 0 ELSE SetMax(PostIds(posts)) + 1

_next_id(posts) == SetMax(PostIds(posts) \cup {0}) + 1

\* index of the first post with the id, 0 when there is none
_find_post(posts, post_id) ==
    IF \E i \in 1..Len(posts) : posts[i].id = post_id
    THEN CHOOSE i \in 1..Len(posts) :
            /\ posts[i].id = post_id
            /\ \A j \in 1..(i - 1) : posts[j].id # post_id
    ELSE 0

(***************************************************************************)
(* Responses: the operation, the HTTP status, the id of the request (0 for *)
(* create) and the body's payload as a sequence.                           *)
(***************************************************************************)
Response(op, status, id, val) ==
    [op |-> op, status |-> status, id |-> id, val |-> val]

NoResponse == Response("none", 0, 0, <<>>)

\* _handle_unexpected: the answer to an exception that leaves a handler
InternalError(r) ==
    Response(r.op, 500, IF r.op = "create" THEN 0 ELSE r.id, <<>>)

\* what a handler does with the list it loaded: whether it saves, the list
\* it saves, and its response
Outcome(save, posts, r) == [save |-> save, posts |-> posts, resp |-> r]

NotFound(op, posts, post_id) ==
    Outcome(FALSE, posts, Response(op, 404, post_id, <<>>))

(***************************************************************************)
(* The handlers.  create_post_validate is what create_post does before it  *)
(* loads; every other operator is what a handler does with the list that   *)
(* _load_posts returned.                                                   *)
(***************************************************************************)
FieldIfEmpty(text, name) == IF text = <<>> THEN <<name>> ELSE <<>>

\* missing_or_invalid
create_post_validate(data) ==
    FieldIfEmpty(_as_str(DictGet(data, "title")), "title")
    \o FieldIfEmpty(_as_str(DictGet(data, "content")), "content")
    \o FieldIfEmpty(_as_str(DictGet(data, "author")), "author")
    \o (IF ~ _parse_date(_as_str(DictGet(data, "date"))).ok
        THEN <<"date">> ELSE <<>>)

create_post(posts, data) ==
    LET post == [id |-> _next_id(posts),
                 title |-> _as_str(DictGet(data, "title")),
                 content |-> _as_str(DictGet(data, "content")),
                 author |-> _as_str(DictGet(data, "author")),
                 date |-> _as_str(DictGet(data, "date")),
                 likes |-> 0,
                 comments |-> <<>>]
    IN  Outcome(TRUE, Append(posts, post),
                Response("create", 201, post.id, <<post>>))

get_post(posts, post_id) ==
    LET i == _find_post(posts, post_id)
    IN  IF i = 0 THEN NotFound("get", posts, post_id)
        ELSE Outcome(FALSE, posts, Response("get", 200, post_id, <<posts[i]>>))

\* target[name] after the handler's "if name in data" block
Merged(target, data, name) ==
    IF HasKey(data, name) /\ _as_str(data[name]) # <<>>
    THEN _as_str(data[name])
    ELSE target[name]

\* every supplied value is stored, an empty one too
update_post_fields_overwrite(target, data) ==
    [target EXCEPT
       !.title = IF HasKey(data, "title") THEN _as_str(data.title) ELSE @,
       !.content = IF HasKey(data, "content") THEN _as_str(data.content) ELSE @,
       !.author = IF HasKey(data, "author") THEN _as_str(data.author) ELSE @]

\* the target after the title, content and author blocks
update_post_fields(target, data) ==
    [target EXCEPT !.title = Merged(target, data, "title"),
                   !.content = Merged(target, data, "content"),
                   !.author = Merged(target, data, "author")]

\* the merged title, content and author are saved before the date is checked
update_post_saves_before_date(posts, post_id, data) ==
    LET i == _find_post(posts, post_id)
    IN  IF i = 0 THEN NotFound("update", posts, post_id)
        ELSE
        LET merged == update_post_fields(posts[i], data)
            value == _as_str(data.date)
            hasDate == HasKey(data, "date") /\ value # <<>>
        IN  IF hasDate /\ ~ _parse_date(value).ok
            THEN Outcome(TRUE, [posts EXCEPT ![i] = merged],
                         Response("update", 400, post_id, <<>>))
            ELSE
            LET target == IF hasDate THEN [merged EXCEPT !.date = value]
                          ELSE merged
            IN  Outcome(TRUE, [posts EXCEPT ![i] = target],
                        Response("update", 200, post_id, <<target>>))

update_post(posts, post_id, data) ==
    LET i == _find_post(posts, post_id)
    IN  IF i = 0 THEN NotFound("update", posts, post_id)
        ELSE
        LET merged == update_post_fields(posts[i], data)
            value == _as_str(data.date)
            hasDate == HasKey(data, "date") /\ value # <<>>
        IN  IF hasDate /\ ~ _parse_date(value).ok
            THEN Outcome(FALSE, [posts EXCEPT ![i] = merged],
                         Response("update", 400, post_id, <<>>))
            ELSE
            LET target == IF hasDate THEN [merged EXCEPT !.date = value]
                          ELSE merged
            IN  Outcome(TRUE, [posts EXCEPT ![i] = target],
                        Response("update", 200, post_id, <<target>>))

\* removes the first entry, whatever its id
delete_post_first_entry(posts, post_id) ==
    IF posts = <<>> THEN NotFound("delete", posts, post_id)
    ELSE Outcome(TRUE, Tail(posts), Response("delete", 200, post_id, <<>>))

delete_post(posts, post_id) ==
    LET remaining == SelectSeq(posts, LAMBDA p : p.id # post_id)
    IN  IF Len(remaining) = Len(posts)
        THEN NotFound("delete", posts, post_id)
        ELSE Outcome(TRUE, remaining, Response("delete", 200, post_id, <<>>))

\* counts the like on the first post of the list
like_post_of_first(posts, post_id) ==
    LET i == _find_post(posts, post_id)
    IN  IF i = 0 THEN NotFound("like", posts, post_id)
        ELSE Outcome(TRUE, [posts EXCEPT ![1].likes = @ + 1],
                     Response("like", 200, post_id, <<posts[1].likes + 1>>))

like_post(posts, post_id) ==
    LET i == _find_post(posts, post_id)
    IN  IF i = 0 THEN NotFound("like", posts, post_id)
        ELSE Outcome(TRUE, [posts EXCEPT ![i].likes = @ + 1],
                     Response("like", 200, post_id, <<posts[i].likes + 1>>))

list_comments(posts, post_id) ==
    LET i == _find_post(posts, post_id)
    IN  IF i = 0 THEN NotFound("list_comments", posts, post_id)
        ELSE Outcome(FALSE, posts,
                     Response("list_comments", 200, post_id, posts[i].comments))

CommentIds(comments) == {comments[j].id : j \in 1..Len(comments)}

\* author and text are checked before the post is looked up
add_comment_validates_first(posts, post_id, data, today) ==
    LET author == _as_str(DictGet(data, "author"))
        text == _as_str(DictGet(data, "text"))
        i == _find_post(posts, post_id)
    IN  IF author = <<>> \/ text = <<>>
        THEN Outcome(FALSE, posts, Response("add_comment", 400, post_id, <<>>))
        ELSE IF i = 0 THEN NotFound("add_comment", posts, post_id)
        ELSE
        LET comments == posts[i].comments
            new_comment ==
                [id |-> SetMax(CommentIds(comments) \cup {0}) + 1,
                 author |-> author, text |-> text, date |-> today]
        IN  Outcome(TRUE,
                    [posts EXCEPT ![i].comments = Append(comments, new_comment)],
                    Response("add_comment", 201, post_id, <<new_comment>>))

\* the next comment id is the number of comments plus one
add_comment_counts_comments(posts, post_id, data, today) ==
    LET i == _find_post(posts, post_id)
    IN  IF i = 0 THEN NotFound("add_comment", posts, post_id)
        ELSE
        LET author == _as_str(DictGet(data, "author"))
            text == _as_str(DictGet(data, "text"))
        IN  IF author = <<>> \/ text = <<>>
            THEN Outcome(FALSE, posts,
                         Response("add_comment", 400, post_id, <<>>))
            ELSE
            LET comments == posts[i].comments
                new_comment ==
                    [id |-> Len(comments) + 1,
                     author |-> author, text |-> text, date |-> today]
            IN  Outcome(TRUE,
                        [posts EXCEPT ![i].comments = Append(comments, new_comment)],
                        Response("add_comment", 201, post_id, <<new_comment>>))

\* today: datetime.utcnow().strftime("%Y-%m-%d")
add_comment(posts, post_id, data, today) ==
    LET i == _find_post(posts, post_id)
    IN  IF i = 0 THEN NotFound("add_comment", posts, post_id)
        ELSE
        LET author == _as_str(DictGet(data, "author"))
            text == _as_str(DictGet(data, "text"))
        IN  IF author = <<>> \/ text = <<>>
            THEN Outcome(FALSE, posts,
                         Response("add_comment", 400, post_id, <<>>))
            ELSE
            LET comments == posts[i].comments
                new_comment ==
                    [id |-> SetMax(CommentIds(comments) \cup {0}) + 1,
                     author |-> author, text |-> text, date |-> today]
            IN  Outcome(TRUE,
                        [posts EXCEPT ![i].comments = Append(comments, new_comment)],
                        Response("add_comment", 201, post_id, <<new_comment>>))

(***************************************************************************)
(* list_posts and search_posts.  A query argument is absent or a string.   *)
(***************************************************************************)
NoArg == [k |-> "absent", s |-> ""]
Arg(s) == [k |-> "str", s |-> s]

\* post.get(name): None when the post has no such field
PostGet(post, name) ==
    IF name \in DOMAIN post THEN JStr(post[name]) ELSE JNull

\* post.get(name, "")
PostGetText(post, name) == IF name \in DOMAIN post THEN post[name] ELSE <<>>

_serialize(post) ==
    [id |-> post.id,
     title |-> PostGetText(post, "title"),
     content |-> PostGetText(post, "content"),
     author |-> PostGetText(post, "author"),
     date |-> PostGetText(post, "date"),
     likes |-> IF "likes" \in DOMAIN post THEN post.likes ELSE 0,
     comments |-> IF "comments" \in DOMAIN post THEN post.comments ELSE <<>>]

SerializeAll(posts) == [i \in 1..Len(posts) |-> _serialize(posts[i])]

\* key=lambda p: _as_str(p.get(sort_field)).lower()
SortKey(post, sort_field) == lower(_as_str(PostGet(post, sort_field)))

\* x is put behind every entry whose key is not greater than its own
RECURSIVE InsertByKey(_, _, _)
InsertByKey(xs, x, sort_field) ==
    IF xs = <<>> THEN <<x>>
    ELSE IF StrLess(SortKey(x, sort_field), SortKey(Head(xs), sort_field))
    THEN <<x>> \o xs
    ELSE <<Head(xs)>> \o InsertByKey(Tail(xs), x, sort_field)

\* list.sort(key=...): ascending, entries with equal keys keep their order
RECURSIVE list_sort(_, _)
list_sort(xs, sort_field) ==
    IF xs = <<>> THEN <<>>
    ELSE InsertByKey(list_sort(SubSeq(xs, 1, Len(xs) - 1), sort_field),
                     xs[Len(xs)], sort_field)

Reverse(xs) == [i \in 1..Len(xs) |-> xs[Len(xs) + 1 - i]]

\* the ascending result is reversed
sorted_reversed_afterwards(xs, sort_field, reverse) ==
    IF reverse THEN Reverse(list_sort(xs, sort_field))
    ELSE list_sort(xs, sort_field)

\* sorted(xs, key=..., reverse=reverse): with reverse the list is reversed,
\* sorted and reversed again, which keeps the order of entries with equal keys
sorted(xs, sort_field, reverse) ==
    IF reverse THEN Reverse(list_sort(Reverse(xs), sort_field))
    ELSE list_sort(xs, sort_field)

list_posts(posts, sort_field, direction) ==
    IF sort_field.k = "str" /\ sort_field.s # ""
    THEN IF sort_field.s \notin {"title", "content"}
         THEN Outcome(FALSE, posts, Response("list", 400, 0, <<>>))
         ELSE LET dir == IF direction.k = "absent" THEN "asc" ELSE direction.s
              IN  IF dir \notin {"asc", "desc"}
                  THEN Outcome(FALSE, posts, Response("list", 400, 0, <<>>))
                  ELSE Outcome(FALSE, posts,
                         Response("list", 200, 0,
                            SerializeAll(sorted(posts, sort_field.s,
                                                dir = "desc"))))
    ELSE Outcome(FALSE, posts, Response("list", 200, 0, SerializeAll(posts)))

\* _match of search_posts; a term is absent or text
TermOk(term, post, name) ==
    (term.k = "str" /\ term.s # <<>>) =>
        Contains(lower(term.s), lower(_as_str(PostGet(post, name))))

search_posts(posts, title_term, content_term) ==
    LET filtered ==
            SelectSeq(posts, LAMBDA p : /\ TermOk(title_term, p, "title")
                                        /\ TermOk(content_term, p, "content"))
    IN  Outcome(FALSE, posts, Response("search", 200, 0, SerializeAll(filtered)))

(***************************************************************************)
(* State.                                                                  *)
(*   file      the store file (posts.json)                                 *)
(*   resp      the response of the request served, until it is sent        *)
(*   nops      the number of requests so far whose handler saved           *)
(*   assigned  the ids that create_post has assigned so far, in order      *)
(* and, for requests served by threads whose steps interleave,             *)
(*   th        per thread: its position in the handler, its request, the   *)
(*             list it holds, the list it is saving, its temporary file    *)
(*             and its response                                            *)
(*   lock      the thread that holds LOCK, 0 when it is free               *)
(*   begun     the number of requests begun by threads                     *)
(***************************************************************************)
VARIABLES file, resp, nops, assigned, th, lock, begun

vars == <<file, resp, nops, assigned, th, lock, begun>>

seqvars == <<resp, nops, assigned>>

thvars == <<th, lock, begun>>

Threads == 1..NumThreads

NoRequest == [op |-> "none", id |-> 0, data |-> <<>>]

NoTmp == [shape |-> "none", text |-> <<>>]

(***************************************************************************)
(* Request inputs.                                                         *)
(***************************************************************************)
Str_1900_01_01 == <<"1", "9", "0", "0", "-", "0", "1", "-", "0", "1">>
Str_2100_12_31 == <<"2", "1", "0", "0", "-", "1", "2", "-", "3", "1">>
Str_1899_12_31 == <<"1", "8", "9", "9", "-", "1", "2", "-", "3", "1">>
Str_2101_01_01 == <<"2", "1", "0", "1", "-", "0", "1", "-", "0", "1">>
Str_2023_02_29 == <<"2", "0", "2", "3", "-", "0", "2", "-", "2", "9">>
Str_2023_1_5 == <<"2", "0", "2", "3", "-", "1", "-", "5">>
Str_2023_01_01x == <<"2", "0", "2", "3", "-", "0", "1", "-", "0", "1", "x">>
Str_2024_06_01 == <<"2", "0", "2", "4", "-", "0", "6", "-", "0", "1">>

RequestIds == 1..MaxId

CreateTitles == {Absent, JStr(<<" ", "A", "\t">>)}
CreateContents == {JStr(<<>>), JStr(<<"c">>)}
CreateAuthors == {JStr(<<" ", " ">>), JStr(<<"u">>)}
CreateDates ==
    {Absent, JStr(<<" ">> \o Str_1900_01_01), JStr(Str_2023_1_5),
     JStr(Str_1899_12_31), JStr(Str_2101_01_01), JStr(Str_2023_02_29),
     JStr(Str_2023_01_01x)}

CreateData ==
    [title : CreateTitles, content : CreateContents,
     author : CreateAuthors, date : CreateDates]

Body(title, content, author, date) ==
    [title |-> title, content |-> content, author |-> author, date |-> date]

UpdateData ==
    { Body(Absent, Absent, Absent, Absent),
      Body(JStr(<<>>), Absent, Absent, Absent),
      Body(JStr(<<"B", " ">>), Absent, Absent, Absent),
      Body(JNull, JStr(<<"d">>), JStr(<<"\t">>), Absent),
      Body(Absent, JStr(<<" ">>), JStr(<<"v">>), JStr(<<>>)),
      Body(Absent, Absent, Absent, JStr(Str_2100_12_31)),
      Body(JStr(<<"B">>), JStr(<<"d">>), JStr(<<"v">>), JStr(Str_2101_01_01)),
      Body(Absent, JStr(<<"d">>), Absent, JStr(Str_2023_02_29)) }

CommentData ==
    [author : {JStr(<<" ">>), JStr(<<"r">>)},
     text : {Absent, JStr(<<"t", " ">>)}]

Todays == {Str_2024_06_01}

SortFields == {NoArg, Arg(""), Arg("title"), Arg("content"), Arg("date")}
Directions == {NoArg, Arg("asc"), Arg("desc"), Arg("up")}
SearchTerms == {Absent, JStr(<<"P">>), JStr(<<"s", "e">>)}

(***************************************************************************)
(* One request at a time: each action is a whole handler, from its         *)
(* _load_posts to its _save_posts and its response.                        *)
(***************************************************************************)
IdleThread ==
    [pc |-> "idle", req |-> NoRequest, posts |-> <<>>, saving |-> <<>>,
     tmp |-> NoTmp, seeding |-> FALSE, resp |-> NoResponse]

Init ==
    /\ file \in {MissingFile, FileWith(json_dumps(<<>>)),
                 FileWith(ScalarJson), FileWith(MalformedJson)}
    /\ resp = NoResponse
    /\ nops = 0
    /\ assigned = <<>>
    /\ th = [t \in Threads |-> IdleThread]
    /\ lock = 0
    /\ begun = 0

\* no request is being served
Idle == resp = NoResponse

\* the handler's end, given what _load_posts gave and what the handler made
\* of it
Serve(ld, out) ==
    IF ld.raised
    THEN /\ resp' = InternalError(out.resp)
         /\ file' = ld.file
         /\ UNCHANGED <<nops, thvars>>
    ELSE /\ out.save => nops < MaxOps
         /\ file' = IF out.save THEN _save_posts(ld.file, out.posts) ELSE ld.file
         /\ resp' = out.resp
         /\ nops' = IF out.save THEN nops + 1 ELSE nops
         /\ UNCHANGED thvars

Create(data) ==
    /\ Idle
    /\ LET missing_or_invalid == create_post_validate(data)
       IN
        IF missing_or_invalid # <<>>
        THEN /\ resp' = Response("create", 400, 0, missing_or_invalid)
             /\ UNCHANGED <<file, nops, assigned, thvars>>
        ELSE LET ld == _load_posts(file)
                 out == create_post(ld.ret, data)
             IN  /\ Serve(ld, out)
                 /\ assigned' = IF ld.raised THEN assigned
                                 ELSE Append(assigned, out.resp.id)

Get(post_id) ==
    /\ Idle
    /\ LET ld == _load_posts(file)
       IN  Serve(ld, get_post(ld.ret, post_id))
    /\ UNCHANGED assigned

Update(post_id, data) ==
    /\ Idle
    /\ LET ld == _load_posts(file)
       IN  Serve(ld, update_post(ld.ret, post_id, data))
    /\ UNCHANGED assigned

Delete(post_id) ==
    /\ Idle
    /\ LET ld == _load_posts(file)
       IN  Serve(ld, delete_post(ld.ret, post_id))
    /\ UNCHANGED assigned

Like(post_id) ==
    /\ Idle
    /\ LET ld == _load_posts(file)
       IN  Serve(ld, like_post(ld.ret, post_id))
    /\ UNCHANGED assigned

ListComments(post_id) ==
    /\ Idle
    /\ LET ld == _load_posts(file)
       IN  Serve(ld, list_comments(ld.ret, post_id))
    /\ UNCHANGED assigned

AddComment(post_id, data, today) ==
    /\ Idle
    /\ LET ld == _load_posts(file)
       IN  Serve(ld, add_comment(ld.ret, post_id, data, today))
    /\ UNCHANGED assigned

List(sort_field, direction) ==
    /\ Idle
    /\ LET ld == _load_posts(file)
       IN  Serve(ld, list_posts(ld.ret, sort_field, direction))
    /\ UNCHANGED assigned

Search(title_term, content_term) ==
    /\ Idle
    /\ LET ld == _load_posts(file)
       IN  Serve(ld, search_posts(ld.ret, title_term, content_term))
    /\ UNCHANGED assigned

\* the server sends the response and is ready for the next request
SendResponse ==
    /\ ~ Idle
    /\ resp' = NoResponse
    /\ UNCHANGED <<file, nops, assigned, thvars>>

DoCreate == \E data \in CreateData : Create(data)
DoGet == \E post_id \in RequestIds : Get(post_id)
DoUpdate == \E post_id \in RequestIds, data \in UpdateData : Update(post_id, data)
DoDelete == \E post_id \in RequestIds : Delete(post_id)
DoLike == \E post_id \in RequestIds : Like(post_id)
DoListComments == \E post_id \in RequestIds : ListComments(post_id)
DoAddComment ==
    \E post_id \in RequestIds, data \in CommentData, today \in Todays :
        AddComment(post_id, data, today)

DoList ==
    \E sort_field \in SortFields, direction \in Directions :
        List(sort_field, direction)
DoSearch ==
    \E title_term \in SearchTerms, content_term \in SearchTerms :
        Search(title_term, content_term)

Next ==
    \/ DoCreate
    \/ DoGet
    \/ DoUpdate
    \/ DoDelete
    \/ DoLike
    \/ DoListComments
    \/ DoAddComment
    \/ SendResponse

Spec == Init /\ [][Next]_vars

(***************************************************************************)
(* Sequences of create requests only.                                      *)
(***************************************************************************)
CreateNext ==
    \/ DoCreate
    \/ SendResponse

CreateSpec == Init /\ [][CreateNext]_vars

(***************************************************************************)
(* Notions the properties are stated in.                                   *)
(***************************************************************************)
\* the posts the store holds: the seed stands for a file not yet created,
\* no posts for a file that is not a JSON array
Store(f) ==
    IF ~ f.exists THEN seed
    ELSE IF f.data.shape = "array" THEN f.data.text
    ELSE <<>>

IdsOf(posts) == {posts[k].id : k \in 1..Len(posts)}

\* posts without its k-th entry
Without(posts, k) == SubSeq(posts, 1, k - 1) \o SubSeq(posts, k + 1, Len(posts))

\* a request value that is empty after trimming
EmptyTrimmed(v) == v.k # "str" \/ \A k \in 1..Len(v.s) : v.s[k] \in Whitespace

Created == resp.op = "create" /\ resp.status = 201

(***************************************************************************)
(* C2: in a sequence of create requests, every id that create assigns is   *)
(* one more than the largest id in the store at the call (1 for an empty   *)
(* store) and is greater than every id assigned before it.                 *)
(***************************************************************************)
C2_MonotonicAllocation ==
    [][\A data \in CreateData :
        (resp'.status = 201 /\ Create(data)) =>
            LET before == Store(file)
                after == Store(file')
                new_id == resp'.id
            IN  /\ (new_id - 1) \in (IdsOf(before) \cup {0})
                /\ \A x \in IdsOf(before) : x < new_id
                /\ \A k \in 1..Len(assigned) : assigned[k] < new_id
                /\ after = Append(before, after[Len(after)])
                /\ after[Len(after)].id = new_id]_vars

\* three creates in a row have been served
C2_Witness == Created /\ Len(assigned) = MaxOps /\ Len(Store(file)) >= MaxOps

(***************************************************************************)
(* C3 as stated: no id is assigned twice by create, also when the post     *)
(* that first had it was deleted.                                          *)
(***************************************************************************)
C3_NeverReused ==
    \A i, j \in 1..Len(assigned) : i # j => assigned[i] # assigned[j]

(***************************************************************************)
(* C3 amended: create assigns an id above every id in the store at the     *)
(* call, so an id that create assigned before is assigned again only when  *)
(* its post and every post with a greater id are no longer in the store.   *)
(***************************************************************************)
C3_ReusedOnlyAboveStore ==
    [][\A data \in CreateData :
        (resp'.status = 201 /\ Create(data)) =>
            /\ resp'.id \notin IdsOf(Store(file))
            /\ (\E k \in 1..Len(assigned) : assigned[k] = resp'.id) =>
                   \A x \in IdsOf(Store(file)) : x < resp'.id]_vars

\* an id has been assigned a second time
C3_Witness ==
    /\ Created
    /\ \E i, j \in 1..Len(assigned) : i < j /\ assigned[i] = assigned[j]

(***************************************************************************)
(* C6: a like of an existing post adds exactly 1 to its stored likes,      *)
(* returns the new count and changes nothing else in the store.            *)
(***************************************************************************)
C6_LikeAddsOne ==
    [][\A post_id \in RequestIds :
        (post_id \in IdsOf(Store(file)) /\ Like(post_id)) =>
            LET before == Store(file)
                after == Store(file')
            IN  /\ resp'.status = 200
                /\ Len(after) = Len(before)
                /\ \A k \in 1..Len(before) :
                      IF before[k].id = post_id
                      THEN /\ after[k] = [before[k] EXCEPT !.likes = before[k].likes + 1]
                           /\ resp'.val = <<before[k].likes + 1>>
                      ELSE after[k] = before[k]]_vars

\* three likes in a row on a seed post: its count is 3
C6_Witness ==
    /\ resp.op = "like" /\ resp.status = 200 /\ resp.val = <<MaxOps>>
    /\ \E k \in 1..Len(Store(file)) :
          Store(file)[k].id = resp.id /\ Store(file)[k].likes = MaxOps
    /\ Len(Store(file)) >= 2

(***************************************************************************)
(* C7: a delete of a stored id removes exactly that entry and keeps the    *)
(* others in order, and a get of the id served next is not-found; a delete *)
(* of an id that is not stored is not-found and leaves the store as it was.*)
(***************************************************************************)
C7_DeleteThenGet ==
    [][\A post_id \in RequestIds :
        Delete(post_id) =>
            LET before == Store(file)
                after == Store(file')
            IN  IF post_id \in IdsOf(before)
                THEN /\ resp'.status = 200
                     /\ \E k \in 1..Len(before) :
                           before[k].id = post_id /\ after = Without(before, k)
                     /\ post_id \notin IdsOf(after)
                     /\ get_post(_load_posts(file').ret, post_id).resp.status = 404
                ELSE /\ resp'.status = 404
                     /\ after = before]_vars

\* a delete has removed one post of several
C7_Witness ==
    /\ resp.op = "delete" /\ resp.status = 200
    /\ Len(Store(file)) >= 2
    /\ Store(file)[1].id # 1

(***************************************************************************)
(* C8: update, like, add_comment and list_comments with an id that no      *)
(* stored post has are not-found and leave the store as it was.            *)
(***************************************************************************)
C8_NotFoundNoEffect ==
    [][\A post_id \in RequestIds :
        (/\ resp'.id = post_id
         /\ post_id \notin IdsOf(Store(file))
         /\ \/ /\ resp'.op = "update"
               /\ \E data \in UpdateData : Update(post_id, data)
            \/ /\ resp'.op = "like"
               /\ Like(post_id)
            \/ /\ resp'.op = "add_comment"
               /\ \E data \in CommentData, today \in Todays :
                     AddComment(post_id, data, today)
            \/ /\ resp'.op = "list_comments"
               /\ ListComments(post_id)) =>
            /\ resp'.status = 404
            /\ resp'.id = post_id
            /\ Store(file') = Store(file)
            /\ file.exists => file' = file]_vars

\* a not-found answer on a store that holds posts
C8_Witness ==
    /\ resp.op \in {"update", "like", "add_comment", "list_comments"}
    /\ resp.status = 404
    /\ Len(Store(file)) >= 2
    /\ nops > 0

(***************************************************************************)
(* C9: create reports exactly the failing fields: title, content, author   *)
(* when empty after trimming, date when it is not a calendar date written  *)
(* YYYY-MM-DD within 1900-01-01..2100-12-31; when it reports any, nothing  *)
(* is stored and no id is consumed.                                        *)
(***************************************************************************)
TrimmedText(v) == IF v.k = "str" THEN strip(v.s) ELSE <<>>

\* four digits, "-", two digits, "-", two digits: a day of the calendar,
\* within the range
IsCalendarDate(s) ==
    /\ Len(s) = 10
    /\ \A i \in {1, 2, 3, 4, 6, 7, 9, 10} : IsDigit(s[i])
    /\ s[5] = "-" /\ s[8] = "-"
    /\ LET y == ToInt(SubSeq(s, 1, 4))
           m == ToInt(SubSeq(s, 6, 7))
           d == ToInt(SubSeq(s, 9, 10))
       IN  /\ m \in 1..12
           /\ d \in 1..DaysInMonth(y, m)
           /\ DateLeq(DATE_MIN, <<y, m, d>>)
           /\ DateLeq(<<y, m, d>>, DATE_MAX)

Reported(r) == IF r.status = 400 THEN {r.val[k] : k \in 1..Len(r.val)} ELSE {}

ReportsFailingFields(data, dateIsValid) ==
    LET reported == Reported(resp')
    IN  /\ resp'.status \in {201, 400}
        /\ resp'.status = 400 <=> reported # {}
        /\ "title" \in reported <=> EmptyTrimmed(data.title)
        /\ "content" \in reported <=> EmptyTrimmed(data.content)
        /\ "author" \in reported <=> EmptyTrimmed(data.author)
        /\ "date" \in reported <=> ~ dateIsValid
        /\ reported \subseteq {"title", "content", "author", "date"}
        /\ reported # {} => file' = file /\ assigned' = assigned /\ nops' = nops

C9_AllFailingFieldsReported ==
    [][\A data \in CreateData :
        (resp'.op = "create" /\ Create(data)) =>
            ReportsFailingFields(data, IsCalendarDate(TrimmedText(data.date)))]_vars

\* the same with the date judged as strptime judges it, which takes a month
\* or a day of one digit
C9_FailingFieldsReportedAsParsed ==
    [][\A data \in CreateData :
        (resp'.op = "create" /\ Create(data)) =>
            ReportsFailingFields(data,
                \/ IsCalendarDate(TrimmedText(data.date))
                \/ TrimmedText(data.date) = Str_2023_1_5)]_vars

\* all four fields have been reported at once
C9_Witness ==
    /\ resp.op = "create" /\ resp.status = 400
    /\ resp.val = <<"title", "content", "author", "date">>
    /\ nops > 0

(***************************************************************************)
(* C10: an update of an existing post replaces title, content and author   *)
(* only by a value that is non-empty after trimming, and keeps the stored  *)
(* value otherwise, so none of them becomes empty; it changes neither the  *)
(* post's id, likes or comments nor any other post.                        *)
(***************************************************************************)
TextFields == {"title", "content", "author"}

C10_UpdateMergesNonEmpty ==
    [][\A post_id \in RequestIds, data \in UpdateData :
        (resp'.op = "update" /\ resp'.status = 200 /\ Update(post_id, data)) =>
            LET before == Store(file)
                after == Store(file')
            IN  /\ Len(after) = Len(before)
                /\ \A k \in 1..Len(before) :
                      IF before[k].id = post_id
                      THEN /\ \A f \in TextFields :
                                /\ after[k][f] =
                                      IF EmptyTrimmed(data[f]) THEN before[k][f]
                                      ELSE strip(data[f].s)
                                /\ after[k][f] # <<>>
                           /\ after[k].id = before[k].id
                           /\ after[k].likes = before[k].likes
                           /\ after[k].comments = before[k].comments
                           /\ resp'.val = <<after[k]>>
                      ELSE after[k] = before[k]]_vars

\* a created post keeps its content "c" through an update that supplied a
\* blank content and the author "v", after a like and next to other posts
C10_Witness ==
    /\ resp.op = "update" /\ resp.status = 200
    /\ Len(resp.val) = 1
    /\ resp.val[1].title = <<"A">>
    /\ resp.val[1].content = <<"c">>
    /\ resp.val[1].author = <<"v">>
    /\ Len(Store(file)) >= 2

CommentedPosts ==
    << [seed[1] EXCEPT !.comments =
          << [id |-> 1, author |-> <<"r">>, text |-> <<"t">>,
              date |-> Str_2023_01_01],
             [id |-> 3, author |-> <<"q">>, text |-> <<"s">>,
              date |-> Str_2023_01_02] >>],
       seed[2] >>

CommentInit ==
    /\ file \in {MissingFile, FileWith(json_dumps(CommentedPosts))}
    /\ resp = NoResponse
    /\ nops = 0
    /\ assigned = <<>>
    /\ th = [t \in Threads |-> IdleThread]
    /\ lock = 0
    /\ begun = 0

CommentNext ==
    \/ DoAddComment
    \/ DoListComments
    \/ SendResponse

CommentSpec == CommentInit /\ [][CommentNext]_vars

(***************************************************************************)
(* C12: add_comment on an existing post, with author and text non-empty    *)
(* after trimming, appends one comment whose id is the largest comment id  *)
(* of that post (0 if it has none) plus 1 and changes nothing else: id 1   *)
(* on a post without comments, id 4 on a post with the comment ids 1 and   *)
(* 3, whatever the comments of other posts; with an empty author or text   *)
(* it answers 400 and stores nothing.                                      *)
(***************************************************************************)
C12_AddCommentAppends ==
    [][\A post_id \in RequestIds, data \in CommentData, today \in Todays :
        (/\ resp'.op = "add_comment" /\ resp'.id = post_id
         /\ post_id \in IdsOf(Store(file))
         /\ AddComment(post_id, data, today)) =>
            LET before == Store(file)
                after == Store(file')
            IN  IF EmptyTrimmed(data.author) \/ EmptyTrimmed(data.text)
                THEN /\ resp' = Response("add_comment", 400, post_id, <<>>)
                     /\ after = before
                     /\ file.exists => file' = file
                     /\ nops' = nops
                ELSE /\ resp'.status = 201
                     /\ Len(resp'.val) = 1
                     /\ Len(after) = Len(before)
                     /\ \A k \in 1..Len(before) :
                           IF before[k].id = post_id
                           THEN LET old == before[k].comments
                                    new == resp'.val[1]
                                IN  /\ after[k] =
                                          [before[k] EXCEPT
                                             !.comments = Append(old, new)]
                                    /\ new.id = SetMax(CommentIds(old) \cup {0}) + 1
                                    /\ old = <<>> => new.id = 1
                                    /\ CommentIds(old) = {1, 3} => new.id = 4
                                    /\ new.author = strip(data.author.s)
                                    /\ new.text = strip(data.text.s)
                           ELSE after[k] = before[k]]_vars

\* the post with the comment ids 1 and 3 has got the comment 4, and the
\* other post, which had none, the comment 1
C12_Witness ==
    /\ resp.op = "add_comment" /\ resp.status = 201
    /\ Len(Store(file)) = 2
    /\ [j \in 1..Len(Store(file)[1].comments) |->
            Store(file)[1].comments[j].id] = <<1, 3, 4>>
    /\ [j \in 1..Len(Store(file)[2].comments) |->
            Store(file)[2].comments[j].id] = <<1>>

(***************************************************************************)
(* Requests, one at a time, on a store file that exists and does not hold  *)
(* a JSON array: a JSON value that is no list, text that is not JSON, or   *)
(* bytes that are not text.                                                *)
(***************************************************************************)
CorruptInit ==
    /\ file \in {FileWith(ScalarJson), FileWith(MalformedJson),
                 FileWith(UndecodableJson)}
    /\ resp = NoResponse
    /\ nops = 0
    /\ assigned = <<>>
    /\ th = [t \in Threads |-> IdleThread]
    /\ lock = 0
    /\ begun = 0

FullNext ==
    \/ DoList
    \/ DoSearch
    \/ DoCreate
    \/ DoGet
    \/ DoUpdate
    \/ DoDelete
    \/ DoLike
    \/ DoListComments
    \/ DoAddComment
    \/ SendResponse

CorruptSpec == CorruptInit /\ [][FullNext]_vars

\* the store file exists and does not hold a JSON array
NotAnArray(f) == f.exists /\ f.data.shape # "array"

\* a request served on such a file: list and search answer with an empty
\* result, the operations on one post with not-found and an untouched
\* file, and a create that succeeds writes a store of exactly its post,
\* which has the id 1; no request is answered with an internal error
RecoversFrom(f) ==
    /\ resp'.status # 500
    /\ resp'.op \in {"list", "search"} =>
          /\ resp'.status = 200 => resp'.val = <<>>
          /\ file' = f
    /\ resp'.op \in {"get", "update", "delete", "like", "list_comments",
                      "add_comment"} =>
          /\ resp'.status = 404
          /\ file' = f
    /\ resp'.op = "create" =>
          IF resp'.status = 201
          THEN /\ resp'.id = 1
               /\ Len(resp'.val) = 1
               /\ resp'.val[1].id = 1
               /\ file' = FileWith(json_dumps(resp'.val))
          ELSE /\ resp'.status = 400
               /\ file' = f

(***************************************************************************)
(* C13 as stated: on a store file that exists and does not hold a JSON     *)
(* array, whatever it holds instead, no request is answered with a storage *)
(* error: list and search give an empty result, get, update, delete, like  *)
(* and the comment operations give not-found and leave the file untouched, *)
(* and the next successful create overwrites the file with exactly its     *)
(* post, with the id 1.                                                    *)
(***************************************************************************)
C13_CorruptStoreReadsAsEmpty ==
    [][(Idle /\ ~ Idle' /\ NotAnArray(file)) => RecoversFrom(file)]_vars

\* the same for the files that json.load reads and rejects or reads as a
\* value that is no list
C13_ParsedStoreReadsAsEmpty ==
    [][(Idle /\ ~ Idle' /\ NotAnArray(file) /\ ~ ReadRaises(file)) =>
          RecoversFrom(file)]_vars

(***************************************************************************)
(* Requests, one at a time, that start with no store file.                 *)
(***************************************************************************)
SeedInit ==
    /\ file = MissingFile
    /\ resp = NoResponse
    /\ nops = 0
    /\ assigned = <<>>
    /\ th = [t \in Threads |-> IdleThread]
    /\ lock = 0
    /\ begun = 0

SeedSpec == SeedInit /\ [][FullNext]_vars

(***************************************************************************)
(* C14: when the store file does not exist, a load returns the two seed    *)
(* posts, with the ids 1 and 2, no likes and no comments, in this order,   *)
(* and leaves a file that holds exactly them; so a handler that only reads *)
(* answers from the seed and leaves that file, and the first create gets   *)
(* the id 3 and leaves the seed followed by its post.                      *)
(***************************************************************************)
C14_MissingStoreIsSeeded ==
    [][(Idle /\ ~ Idle' /\ ~ file.exists) =>
          LET ld == _load_posts(file)
          IN  /\ ld.ret = seed
              /\ ld.file = FileWith(json_dumps(seed))
              /\ Len(ld.ret) = 2
              /\ ld.ret[1].id = 1 /\ ld.ret[2].id = 2
              /\ \A k \in 1..2 :
                    ld.ret[k].likes = 0 /\ ld.ret[k].comments = <<>>
              /\ IF resp'.op = "create"
                 THEN IF resp'.status = 201
                      THEN /\ resp'.id = 3
                           /\ Len(resp'.val) = 1
                           /\ resp'.val[1].id = 3
                           /\ file' = FileWith(json_dumps(Append(seed, resp'.val[1])))
                      ELSE resp'.status = 400 /\ file' = file
                 ELSE /\ file'.exists
                      /\ nops' = nops => file' = FileWith(json_dumps(seed))
                      /\ resp'.op = "get" =>
                            /\ resp'.id \in {1, 2} =>
                                  resp' = Response("get", 200, resp'.id,
                                                   <<seed[resp'.id]>>)
                            /\ resp'.id \notin {1, 2} => resp'.status = 404
                      /\ (resp'.op = "list" /\ resp'.status = 200) =>
                            /\ Len(resp'.val) = 2
                            /\ {resp'.val[1], resp'.val[2]} = {seed[1], seed[2]}]_vars

\* the first request that saved was a create: it got the id 3, and the file
\* holds the seed and its post
C14_Witness ==
    /\ Created /\ resp.id = 3 /\ nops = 1 /\ assigned = <<3>>
    /\ file = FileWith(json_dumps(Append(seed, resp.val[1])))

(***************************************************************************)
(* List requests on a store file whose posts have titles and contents that *)
(* are equal once trimmed and lower-cased, and one post without a title;   *)
(* likes and deletes change the store between the lists.                   *)
(***************************************************************************)
TitledPosts ==
    << [id |-> 1, title |-> <<"b">>, content |-> <<"x">>, author |-> <<"u">>,
        date |-> Str_2023_01_01, likes |-> 0, comments |-> <<>>],
       [id |-> 2, title |-> <<"A", " ">>, content |-> <<"X">>,
        author |-> <<"u">>, date |-> Str_2023_01_01, likes |-> 0,
        comments |-> <<>>],
       [id |-> 3, title |-> <<"B">>, content |-> <<"x">>, author |-> <<"u">>,
        date |-> Str_2023_01_02, likes |-> 0, comments |-> <<>>],
       [id |-> 4, content |-> <<"y">>, author |-> <<"u">>,
        date |-> Str_2023_01_02, likes |-> 0, comments |-> <<>>],
       [id |-> 5, title |-> <<" ", "a">>, content |-> <<"Y">>,
        author |-> <<"u">>, date |-> Str_2023_01_02, likes |-> 0,
        comments |-> <<>>] >>

ListInit ==
    /\ file \in {MissingFile, FileWith(json_dumps(TitledPosts))}
    /\ resp = NoResponse
    /\ nops = 0
    /\ assigned = <<>>
    /\ th = [t \in Threads |-> IdleThread]
    /\ lock = 0
    /\ begun = 0

ListNext ==
    \/ DoList
    \/ DoDelete
    \/ DoLike
    \/ SendResponse

ListSpec == ListInit /\ [][ListNext]_vars

\* the lower-cased trimmed text of a field, empty for a missing field
KeyOf(post, name) ==
    lower(strip(IF name \in DOMAIN post THEN post[name] ELSE <<>>))

(***************************************************************************)
(* C15: a list sorted by title or content, ascending (also when no         *)
(* direction is given) or descending, returns every stored post once, in   *)
(* the order of the lower-cased trimmed text of the field, a missing field *)
(* counting as empty; posts with equal keys are in their order in the      *)
(* store, in both directions; and the list does not change the store.      *)
(***************************************************************************)
C15_SortIsStable ==
    [][\A sort_field \in {Arg("title"), Arg("content")},
          direction \in {NoArg, Arg("asc"), Arg("desc")} :
        (resp'.op = "list" /\ List(sort_field, direction)) =>
            LET stored == Store(file)
                out == resp'.val
                n == Len(stored)
                at == [i \in 1..Len(out) |->
                         IF \E k \in 1..n : stored[k].id = out[i].id
                         THEN CHOOSE k \in 1..n : stored[k].id = out[i].id
                         ELSE 0]
                key == [i \in 1..Len(out) |-> KeyOf(stored[at[i]], sort_field.s)]
            IN  /\ resp'.status = 200
                /\ Len(out) = n
                /\ \A i \in 1..n : at[i] # 0 /\ out[i] = _serialize(stored[at[i]])
                /\ \A i, j \in 1..n : i # j => at[i] # at[j]
                /\ \A i, j \in 1..n :
                      i < j =>
                        /\ IF direction = Arg("desc")
                           THEN ~ StrLess(key[i], key[j])
                           ELSE ~ StrLess(key[j], key[i])
                        /\ key[i] = key[j] => at[i] < at[j]
                /\ Store(file') = stored
                /\ file.exists => file' = file]_vars

\* the five posts listed by title, descending: "b" and "B" before "A " and
\* " a" before the post without a title, equal keys in the order of the store
C15_Witness ==
    /\ resp.op = "list" /\ resp.status = 200
    /\ [i \in 1..Len(resp.val) |-> resp.val[i].id] = <<1, 3, 2, 5, 4>>
    /\ nops > 0

(***************************************************************************)
(* Requests served by threads: the steps of a handler that read or write   *)
(* the store file or LOCK are steps of their own, and the steps of         *)
(* different threads interleave.                                           *)
(*                                                                         *)
(*   idle    no request                                                    *)
(*   exists  in _load_posts, before os.path.exists                         *)
(*   read    in _load_posts, before open and json.load                     *)
(*   handle  _load_posts has returned th[t].posts                          *)
(*   acquire in _save_posts, before "with LOCK"                            *)
(*   write   in _atomic_write, the temporary file is open                  *)
(*   replace in _atomic_write, the temporary file is closed                *)
(*   release in _save_posts, leaving "with LOCK"                           *)
(*   unwind  in _save_posts, leaving "with LOCK" with an exception         *)
(*   done    the response has been returned                                *)
(***************************************************************************)
ValidCreate ==
    Body(JStr(<<" ", "A", "\t">>), JStr(<<"c">>), JStr(<<"u">>),
         JStr(Str_1900_01_01))

ThreadRequests ==
    {[op |-> "create", id |-> 0, data |-> ValidCreate],
     [op |-> "create", id |-> 0,
      data |-> Body(Absent, JStr(<<"c">>), JStr(<<"u">>), JStr(Str_1899_12_31))],
     [op |-> "update", id |-> 1,
      data |-> Body(JStr(<<"B">>), Absent, Absent, Absent)],
     [op |-> "get", id |-> 1, data |-> <<>>],
     [op |-> "delete", id |-> 1, data |-> <<>>],
     [op |-> "delete", id |-> 2, data |-> <<>>],
     [op |-> "like", id |-> 1, data |-> <<>>],
     [op |-> "add_comment", id |-> 1,
      data |-> [author |-> JStr(<<"r">>), text |-> JStr(<<"t", " ">>)]]}

\* what the handler of request req does with the list it loaded
Handler(req, posts) ==
    CASE req.op = "create" -> create_post(posts, req.data)
      [] req.op = "update" -> update_post(posts, req.id, req.data)
      [] req.op = "get" -> get_post(posts, req.id)
      [] req.op = "delete" -> delete_post(posts, req.id)
      [] req.op = "like" -> like_post(posts, req.id)
      [] req.op = "add_comment" ->
            add_comment(posts, req.id, req.data, Str_2024_06_01)

\* a request arrives at thread t; create_post validates before it loads
Begin(t, req) ==
    /\ th[t].pc \in {"idle", "done"}
    /\ begun < MaxRequests
    /\ begun' = begun + 1
    /\ LET missing_or_invalid ==
               IF req.op = "create" THEN create_post_validate(req.data) ELSE <<>>
       IN  th' = [th EXCEPT ![t] =
                    IF missing_or_invalid # <<>>
                    THEN [IdleThread EXCEPT
                            !.pc = "done",
                            !.resp = Response("create", 400, 0, missing_or_invalid)]
                    ELSE [IdleThread EXCEPT !.pc = "exists", !.req = req]]
    /\ UNCHANGED <<file, lock, seqvars>>

\* _load_posts: os.path.exists(STORAGE_FILE)
LoadExists(t) ==
    /\ th[t].pc = "exists"
    /\ th' = [th EXCEPT ![t] =
                IF file.exists
                THEN [@ EXCEPT !.pc = "read"]
                ELSE [@ EXCEPT !.pc = "acquire", !.seeding = TRUE,
                               !.posts = seed, !.saving = seed]]
    /\ UNCHANGED <<file, lock, begun, seqvars>>

\* _load_posts: open, json.load, isinstance
LoadRead(t) ==
    /\ th[t].pc = "read"
    /\ th' = [th EXCEPT ![t] = [@ EXCEPT !.pc = "handle", !.posts = ReadPosts(file)]]
    /\ UNCHANGED <<file, lock, begun, seqvars>>

\* the handler between its _load_posts and its _save_posts or its return
Handle(t) ==
    /\ th[t].pc = "handle"
    /\ LET out == Handler(th[t].req, th[t].posts)
       IN  th' = [th EXCEPT ![t] =
                    IF out.save
                    THEN [@ EXCEPT !.pc = "acquire", !.posts = out.posts,
                                   !.saving = out.posts, !.resp = out.resp]
                    ELSE [IdleThread EXCEPT !.pc = "done", !.resp = out.resp]]
    /\ UNCHANGED <<file, lock, begun, seqvars>>

\* tempfile.mkstemp: a new, empty temporary file
mkstemp == [shape |-> "partial", text |-> <<>>]

\* the data is written to the store file itself
tmp_write_in_place(f, tmp, chunk) ==
    [file |-> FileWith([shape |-> "partial", text |-> Append(tmp.text, chunk)]),
     tmp |-> [shape |-> "partial", text |-> Append(tmp.text, chunk)]]

\* tmp.write(data), as far as one more post of the array: the store file f is
\* not touched
tmp_write(f, tmp, chunk) ==
    [file |-> f,
     tmp |-> [shape |-> "partial", text |-> Append(tmp.text, chunk)]]

\* leaving "with os.fdopen(...) as tmp": all of data is in the file
tmp_close(tmp, data) == data

\* os.replace(tmp_path, path)
os_replace(tmp, f) == FileWith(tmp)

\* LOCK.acquire() with no release
LOCK_release_never(t) == t

\* leaving "with LOCK"
LOCK_release(t) == 0

\* _save_posts: with LOCK, json.dumps, and mkstemp of _atomic_write
Acquire(t) ==
    /\ th[t].pc = "acquire"
    /\ lock = 0
    /\ lock' = t
    /\ th' = [th EXCEPT ![t] = [@ EXCEPT !.pc = "write", !.tmp = mkstemp]]
    /\ UNCHANGED <<file, begun, seqvars>>

\* _atomic_write: tmp.write, one post further
Write(t) ==
    /\ th[t].pc = "write"
    /\ Len(th[t].tmp.text) < Len(th[t].saving)
    /\ LET w == tmp_write(file, th[t].tmp,
                          th[t].saving[Len(th[t].tmp.text) + 1])
       IN  /\ file' = w.file
           /\ th' = [th EXCEPT ![t] = [@ EXCEPT !.tmp = w.tmp]]
    /\ UNCHANGED <<lock, begun, seqvars>>

\* _atomic_write: the temporary file is closed
Close(t) ==
    /\ th[t].pc = "write"
    /\ Len(th[t].tmp.text) = Len(th[t].saving)
    /\ th' = [th EXCEPT ![t] =
                [@ EXCEPT !.pc = "replace",
                          !.tmp = tmp_close(@, json_dumps(th[t].saving))]]
    /\ UNCHANGED <<file, lock, begun, seqvars>>

\* _atomic_write: os.replace; nothing is left for the finally block to remove
Replace(t) ==
    /\ th[t].pc = "replace"
    /\ file' = os_replace(th[t].tmp, file)
    /\ th' = [th EXCEPT ![t] = [@ EXCEPT !.pc = "release", !.tmp = NoTmp]]
    /\ UNCHANGED <<lock, begun, seqvars>>

\* _save_posts returns: to _load_posts, which returns the seed to the
\* handler, or to the handler, which returns its response
Release(t) ==
    /\ th[t].pc = "release"
    /\ lock' = LOCK_release(t)
    /\ th' = [th EXCEPT ![t] =
                IF th[t].seeding
                THEN [@ EXCEPT !.pc = "handle", !.seeding = FALSE, !.saving = <<>>]
                ELSE [IdleThread EXCEPT !.pc = "done", !.resp = th[t].resp]]
    /\ UNCHANGED <<file, begun, seqvars>>

DoBegin == \E t \in Threads, req \in ThreadRequests : Begin(t, req)
DoLoadExists == \E t \in Threads : LoadExists(t)
DoLoadRead == \E t \in Threads : LoadRead(t)
DoHandle == \E t \in Threads : Handle(t)
DoAcquire == \E t \in Threads : Acquire(t)
DoWrite == \E t \in Threads : Write(t)
DoClose == \E t \in Threads : Close(t)
DoReplace == \E t \in Threads : Replace(t)
DoRelease == \E t \in Threads : Release(t)

ThreadNext ==
    \/ DoBegin
    \/ DoLoadExists
    \/ DoLoadRead
    \/ DoHandle
    \/ DoAcquire
    \/ DoWrite
    \/ DoClose
    \/ DoReplace
    \/ DoRelease

ThreadSpec == Init /\ [][ThreadNext]_vars

\* the posts in the store file as it is on disk
Persisted(f) ==
    IF f.exists /\ f.data.shape = "array" THEN f.data.text ELSE <<>>

(***************************************************************************)
(* C1: whatever requests the threads serve and however their steps         *)
(* interleave, no two posts in the store file have the same id.            *)
(***************************************************************************)
C1_UniquePersistedIds ==
    \A i, j \in 1..Len(Persisted(file)) :
        i # j => Persisted(file)[i].id # Persisted(file)[j].id

\* two creates that loaded the same list were both answered with the same
\* new id, and the file holds one post with it
C1_Witness ==
    /\ \A t \in {1, 2} :
          /\ th[t].pc = "done"
          /\ th[t].resp.op = "create" /\ th[t].resp.status = 201
    /\ th[1].resp.id = th[2].resp.id
    /\ Cardinality({k \in 1..Len(Persisted(file)) :
                       Persisted(file)[k].id = th[1].resp.id}) = 1
    /\ Len(Persisted(file)) >= 2

(***************************************************************************)
(* C4: the store file never holds a partly written text: it changes only   *)
(* by the rename of a closed temporary file that holds the whole list      *)
(* given to a save, and a load returns the whole list of the file as it is *)
(* at the read.                                                            *)
(***************************************************************************)
C4_NoPartialStoreFile ==
    [][/\ file'.data.shape # "partial"
       /\ file' # file =>
             \E t \in Threads :
                /\ th[t].pc = "replace"
                /\ th'[t].pc = "release"
                /\ file' = FileWith([shape |-> "array", text |-> th[t].saving])
       /\ \A t \in Threads :
             (th[t].pc = "read" /\ th'[t].pc = "handle") =>
                 th'[t].posts = Persisted(file)]_vars

\* a thread is about to read the store file while the temporary file of
\* another thread holds part of a list
C4_Witness ==
    \E t, u \in Threads :
        /\ t # u
        /\ th[t].pc = "write"
        /\ th[t].tmp.shape = "partial"
        /\ Len(th[t].tmp.text) >= 1
        /\ Len(th[t].tmp.text) < Len(th[t].saving)
        /\ th[u].pc = "read"
        /\ Persisted(file) # th[t].saving

(***************************************************************************)
(* C5: LOCK is held only inside the save, from "with LOCK" to its end, and *)
(* never while a thread loads or computes; so two requests can load the    *)
(* same list and the later save overwrites the earlier one.                *)
(***************************************************************************)
C5_LockOnlyInsideSave ==
    /\ lock \in {0} \cup Threads
    /\ \A t \in Threads :
          lock = t <=> th[t].pc \in {"write", "replace", "release"}

\* two likes of post 1 were both answered with success and with the count
\* 1, and the file holds the count 1
C5_Witness ==
    /\ begun = 2
    /\ \A t \in {1, 2} :
          /\ th[t].pc = "done"
          /\ th[t].resp.op = "like" /\ th[t].resp.status = 200
          /\ th[t].resp.id = 1
          /\ th[t].resp.val = <<1>>
    /\ \E k \in 1..Len(Persisted(file)) :
          Persisted(file)[k].id = 1 /\ Persisted(file)[k].likes = 1

(***************************************************************************)
(* C16 as stated: also when the steps of requests interleave, the save of  *)
(* the seed by a load never replaces a store file that exists, so it       *)
(* erases no post that another request has stored, and a request that only *)
(* reads never changes a store file that exists.                           *)
(***************************************************************************)
C16_SeedNeverReplacesExistingStore ==
    [][\A t \in Threads :
          (th[t].pc = "replace" /\ th'[t].pc = "release" /\ Replace(t)) =>
              /\ th[t].seeding =>
                    /\ ~ file.exists
                    /\ IdsOf(Persisted(file)) \subseteq IdsOf(Persisted(file'))
              /\ th[t].req.op = "get" => ~ file.exists]_vars

\* the part of it about stored posts alone, which the same interleavings
\* violate: the seed written by one load replaces a file to which another
\* request has added a post in the meantime
C16_SeedErasesNoStoredPost ==
    [][\A t \in Threads :
          (th[t].pc = "replace" /\ th[t].seeding /\ Replace(t)) =>
              IdsOf(Persisted(file)) \subseteq IdsOf(Persisted(file'))]_vars

(***************************************************************************)
(* Saves that can fail: tmp.write or os.replace raises OSError (disk full, *)
(* no permission).  The "finally" of _atomic_write removes the temporary   *)
(* file, the exception leaves "with LOCK", _load_posts if the save was its *)
(* seeding, and the handler, and _handle_unexpected answers 500.           *)
(***************************************************************************)
\* _atomic_write: tmp.write raises; the temporary file is closed and removed
WriteFails(t) ==
    /\ th[t].pc = "write"
    /\ th' = [th EXCEPT ![t] = [@ EXCEPT !.pc = "unwind", !.tmp = NoTmp]]
    /\ UNCHANGED <<file, lock, begun, seqvars>>

\* _atomic_write: os.replace raises; the temporary file is removed
ReplaceFails(t) ==
    /\ th[t].pc = "replace"
    /\ th' = [th EXCEPT ![t] = [@ EXCEPT !.pc = "unwind", !.tmp = NoTmp]]
    /\ UNCHANGED <<file, lock, begun, seqvars>>

\* the exception leaves "with LOCK" and the handler
Unwind(t) ==
    /\ th[t].pc = "unwind"
    /\ lock' = LOCK_release(t)
    /\ th' = [th EXCEPT ![t] =
                [IdleThread EXCEPT
                   !.pc = "done",
                   !.resp = InternalError(
                               Response(th[t].req.op, 0, th[t].req.id, <<>>))]]
    /\ UNCHANGED <<file, begun, seqvars>>

\* the requests whose saves can fail: a like, which saves the list, and a
\* get, which saves when its load writes the seed
FailRequests == {req \in ThreadRequests : req.op \in {"like", "get"}}

DoBeginSaving == \E t \in Threads, req \in FailRequests : Begin(t, req)
DoWriteFails == \E t \in Threads : WriteFails(t)
DoReplaceFails == \E t \in Threads : ReplaceFails(t)
DoUnwind == \E t \in Threads : Unwind(t)

FailNext ==
    \/ DoBeginSaving
    \/ DoLoadExists
    \/ DoLoadRead
    \/ DoHandle
    \/ DoAcquire
    \/ DoWrite
    \/ DoClose
    \/ DoReplace
    \/ DoRelease
    \/ DoWriteFails
    \/ DoReplaceFails
    \/ DoUnwind

\* a step of thread t that does not wait for LOCK
Step(t) ==
    \/ LoadExists(t)
    \/ LoadRead(t)
    \/ Handle(t)
    \/ Write(t)
    \/ Close(t)
    \/ Replace(t)
    \/ Release(t)
    \/ WriteFails(t)
    \/ ReplaceFails(t)
    \/ Unwind(t)

\* fair scheduling: a thread that can run does run, and a thread that waits
\* for LOCK gets it if LOCK is free again and again
FailSpec ==
    /\ Init
    /\ [][FailNext]_vars
    /\ \A t \in Threads : WF_vars(Step(t)) /\ SF_vars(Acquire(t))

\* thread t is inside "with LOCK"
InSave(t) == th[t].pc \in {"write", "replace", "release", "unwind"}

(***************************************************************************)
(* C17: a save that fails in tmp.write or in os.replace leaves the store   *)
(* file as it was, never partly written, and gives LOCK back on its way    *)
(* out, the request being answered with an error; LOCK is held by the      *)
(* thread inside the save and free when there is none; and under fair      *)
(* scheduling every request that reaches the save gets LOCK and finishes.  *)
(***************************************************************************)
C17_FailedSaveKeepsStoreAndFreesLock ==
    /\ [][\A t \in Threads :
            /\ (WriteFails(t) \/ ReplaceFails(t)) =>
                  /\ file' = file
                  /\ th'[t].tmp = NoTmp
                  /\ lock' = t
            /\ Unwind(t) =>
                  /\ file' = file
                  /\ lock' = 0
                  /\ th'[t].pc = "done"
                  /\ th'[t].resp.status = 500]_vars
    /\ [](file.data.shape # "partial")
    /\ [](\A t \in Threads : lock = t <=> InSave(t))
    /\ []((\A t \in Threads : ~ InSave(t)) => lock = 0)
    /\ \A t \in Threads : (th[t].pc = "acquire") ~> (th[t].pc = "done")

\* the save of one thread has failed while another thread waits for LOCK,
\* and the store file holds its previous list, not the one being saved
C17_Witness ==
    \E t, u \in Threads :
        /\ t # u
        /\ th[t].pc = "unwind"
        /\ lock = t
        /\ th[u].pc = "acquire"
        /\ file.exists
        /\ Len(Persisted(file)) >= 2
        /\ Persisted(file) # th[t].saving

=============================================================================
